---- MODULE Spec2Model ----
(***************************************************************************)
(* Model of MiniProject.py, the Streamlit weather dashboard.               *)
(*                                                                         *)
(* A dashboard render is one top-to-bottom run of the script.  The run is  *)
(* cut at its network calls: geocoding (tab1), forecast request (tab1),    *)
(* forecast processing (tab1), historical tab (tab2), comparison (tab3).   *)
(* An uncaught Python exception ends the run in pc = "crashed"; st.stop()  *)
(* ends it in pc = "stopped"; a run that reaches the end of the script     *)
(* ends in pc = "done".                                                    *)
(*                                                                         *)
(* Temperatures are exact fixed-point numbers counted in fifths of a       *)
(* degree (whole-degree Celsius inputs make C*9/5+32 exact); the float     *)
(* rounding of Python is not modelled.  Timestamps are epoch seconds.      *)
(***************************************************************************)
EXTENDS Integers, Sequences, FiniteSets, TLC

\* ------------------------------------------------------------------ bounds
MaxRuns == 2          \* script runs in one behaviour (first run + reruns)
MaxTicks == 2         \* clock ticks in one behaviour
TickSeconds == 1800   \* seconds per clock tick
MaxPoints == 41       \* longest upstream forecast list

\* ------------------------------------------------------- program constants
TTL == 3600           \* @st.cache_data(ttl=3600)
PointsPerDay == 8     \* data['list'][:forecast_days * 8]
MinDays == 1          \* st.slider min_value
MaxDays == 5          \* st.slider max_value
DefaultDays == 3      \* st.slider value
WindLimit == 10       \* max() > 10
HeatLimitC == 35      \* 35 if Celsius
HeatLimitF == 95      \* else 95

Celsius == "Celsius"
Fahrenheit == "Fahrenheit"
Units == {Celsius, Fahrenheit}

Cities == {"Johannesburg", "atlantis"}
Keys == {"1a969a98", "other-key"}
DefaultCity == "Johannesburg"
DefaultKey == "1a969a98"

\* Python's None, as a record so that it compares with records; the None of
\* an error slot, which otherwise holds a string; and the containers.
None == [kind |-> "None"]
NoError == "None"
Frame(rows) == [kind |-> "DataFrame", rows |-> rows]
List(items) == [kind |-> "list", items |-> items]

\* ------------------------------------------------------------ pure helpers
Min2(a, b) == IF a <= b THEN a ELSE b

\* Whole degrees as fifths of a degree.
Deg(c) == c * 5

\* str.title() on the strings the model uses.
Title(s) ==
    CASE s = "clear sky" -> "Clear Sky"
      [] s = "Clear Sky" -> "Clear Sky"
      [] s = "light rain" -> "Light Rain"
      [] s = "Johannesburg" -> "Johannesburg"
      [] s = "atlantis" -> "Atlantis"
      [] OTHER -> s

\* datetime.fromtimestamp(dt).date(), as a day number in the local zone.
DateOf(dt, utcoffset) == (dt + utcoffset) \div 86400

NormalizeTempFactorSwapped(temp, unit) ==
    IF unit = Fahrenheit THEN ((temp * 5) \div 9) + Deg(32) ELSE temp

\* temp = (temp * 9/5) + 32 under Fahrenheit, unchanged under Celsius.
NormalizeTemp(temp, unit) ==
    IF unit = Fahrenheit THEN ((temp * 9) \div 5) + Deg(32) ELSE temp

\* data['list'][:forecast_days * 8]
TruncateOneMore(list, days) ==
    SubSeq(list, 1, Min2(Len(list), days * PointsPerDay + 1))

ForecastList(list, days) ==
    SubSeq(list, 1, Min2(Len(list), days * PointsPerDay))

\* One row of forecast_df (with the Date column of line 202).
ForecastRow(item, unit, utcoffset) ==
    [ Datetime    |-> item.dt,
      Date        |-> DateOf(item.dt, utcoffset),
      Temperature |-> NormalizeTemp(item.temp, unit),
      Humidity    |-> item.humidity,
      Wind        |-> item.speed,
      Description |-> Title(item.description),
      Icon        |-> item.icon ]

\* The for loop of lines 113-125 and pd.DataFrame(forecast_data).
ForecastData(list, days, unit, utcoffset) ==
    LET forecast_list == ForecastList(list, days)
    IN  [ i \in 1..Len(forecast_list) |->
            ForecastRow(forecast_list[i], unit, utcoffset) ]

RECURSIVE SeqMax(_, _)
SeqMax(xs, i) ==
    IF i = Len(xs) THEN xs[i]
    ELSE LET m == SeqMax(xs, i + 1) IN IF xs[i] >= m THEN xs[i] ELSE m

RECURSIVE SeqMin(_, _)
SeqMin(xs, i) ==
    IF i = Len(xs) THEN xs[i]
    ELSE LET m == SeqMin(xs, i + 1) IN IF xs[i] <= m THEN xs[i] ELSE m

RECURSIVE SeqSum(_, _)
SeqSum(xs, i) == IF i > Len(xs) THEN 0 ELSE xs[i] + SeqSum(xs, i + 1)

Column(df, f) == [ i \in 1..Len(df) |-> df[i][f] ]

\* Series.mean(): the exact quotient sum / count.
Mean(xs) == [ num |-> SeqSum(xs, 1), den |-> Len(xs) ]

\* ------------------------------------------------- Series.value_counts()
\* Distinct values in order of first appearance (the hash table's order).
RECURSIVE Uniques(_, _, _)
Uniques(xs, i, acc) ==
    IF i > Len(xs) THEN acc
    ELSE IF \E j \in 1..Len(acc) : acc[j] = xs[i]
         THEN Uniques(xs, i + 1, acc)
         ELSE Uniques(xs, i + 1, Append(acc, xs[i]))

CountOf(xs, v) == Cardinality({ i \in 1..Len(xs) : xs[i] = v })

\* Position at which v enters a sequence sorted by descending count,
\* behind every value whose count is at least as large (stable).
RECURSIVE InsertPos(_, _, _, _)
InsertPos(sorted, v, xs, i) ==
    IF i > Len(sorted) THEN i
    ELSE IF CountOf(xs, sorted[i]) >= CountOf(xs, v)
         THEN InsertPos(sorted, v, xs, i + 1)
         ELSE i

RECURSIVE InsertPosUnstable(_, _, _, _)
InsertPosUnstable(sorted, v, xs, i) ==
    IF i > Len(sorted) THEN i
    ELSE IF CountOf(xs, sorted[i]) > CountOf(xs, v)
         THEN InsertPosUnstable(sorted, v, xs, i + 1)
         ELSE i

InsertAt(s, i, v) == SubSeq(s, 1, i - 1) \o <<v>> \o SubSeq(s, i, Len(s))

RECURSIVE SortByCount(_, _, _, _)
SortByCount(keys, xs, i, acc) ==
    IF i > Len(keys) THEN acc
    ELSE SortByCount(keys, xs, i + 1,
                     InsertAt(acc, InsertPos(acc, keys[i], xs, 1), keys[i]))

RECURSIVE SortByCountLastTie(_, _, _, _)
SortByCountLastTie(keys, xs, i, acc) ==
    IF i > Len(keys) THEN acc
    ELSE SortByCountLastTie(keys, xs, i + 1,
            InsertAt(acc, InsertPosUnstable(acc, keys[i], xs, 1), keys[i]))

ValueCountsLastTie(xs) == SortByCountLastTie(Uniques(xs, 1, <<>>), xs, 1, <<>>)

\* The index of x.value_counts(): values by descending count, equal counts
\* in order of first appearance.
ValueCounts(xs) == SortByCount(Uniques(xs, 1, <<>>), xs, 1, <<>>)

\* lambda x: x.value_counts().index[0]
ModalDescription(xs) == ValueCounts(xs)[1]

\* ------------------------------------------------- groupby('Date').agg()
RECURSIVE SortedDates(_)
SortedDates(S) ==
    IF S = {} THEN <<>>
    ELSE LET d == CHOOSE x \in S : \A y \in S : x <= y
         IN  <<d>> \o SortedDates(S \ {d})

Bucket(df, d) == SelectSeq(df, LAMBDA r : r.Date = d)

DailyAggregateMinMaxSwapped(b) ==
    [ Date        |-> b[1].Date,
      Temp_Avg    |-> Mean(Column(b, "Temperature")),
      Temp_Min    |-> SeqMax(Column(b, "Temperature"), 1),
      Temp_Max    |-> SeqMin(Column(b, "Temperature"), 1),
      Humidity    |-> Mean(Column(b, "Humidity")),
      Wind        |-> Mean(Column(b, "Wind")),
      Description |-> ModalDescription(Column(b, "Description")) ]

\* One row of daily_forecast, from the rows of one date (lines 203-210).
DailyAggregate(b) ==
    [ Date        |-> b[1].Date,
      Temp_Avg    |-> Mean(Column(b, "Temperature")),
      Temp_Min    |-> SeqMin(Column(b, "Temperature"), 1),
      Temp_Max    |-> SeqMax(Column(b, "Temperature"), 1),
      Humidity    |-> Mean(Column(b, "Humidity")),
      Wind        |-> Mean(Column(b, "Wind")),
      Description |-> ModalDescription(Column(b, "Description")) ]

DailyForecast(df) ==
    LET dates == SortedDates({ df[i].Date : i \in 1..Len(df) })
    IN  [ k \in 1..Len(dates) |-> DailyAggregate(Bucket(df, dates[k])) ]

\* ------------------------------------------------------ alerts (139-146)
WindAlert ==
    [ tag |-> "wind",
      text |-> "High wind alert: Wind speed exceeds 10 m/s in forecast!" ]

HeatLimit(unit) == IF unit = Celsius THEN HeatLimitC ELSE HeatLimitF

HeatAlert(unit) ==
    [ tag |-> "heat",
      text |-> "Extreme heat warning: Temperatures above ... expected!",
      degrees |-> HeatLimit(unit) ]

WindFiresAtLimit(df) == SeqMax(Column(df, "Wind"), 1) >= WindLimit

WindFires(df) == SeqMax(Column(df, "Wind"), 1) > WindLimit

HeatFiresCelsiusOnly(df, unit) ==
    SeqMax(Column(df, "Temperature"), 1) > Deg(HeatLimitC)

HeatFires(df, unit) ==
    SeqMax(Column(df, "Temperature"), 1) > Deg(HeatLimit(unit))

Alerts(df, unit) ==
    (IF WindFires(df) THEN <<WindAlert>> ELSE <<>>)
    \o (IF HeatFires(df, unit) THEN <<HeatAlert(unit)>> ELSE <<>>)

\* ------------------------------------------------------- upstream feeds
\* Cyclic value profiles of the forecast service: temperature in whole
\* degrees Celsius, wind speed in m/s, description.
TempProfiles ==
    << <<20>>, <<34, 35>>, <<36, 20, 20>>, <<-2, 3, 35>>, <<7, 7, 8>>, <<35>> >>
WindProfiles ==
    << <<3>>, <<3, 5, 10>>, <<3, 5, 12>>, <<10>>, <<11, 2>>, <<3, 5, 9>> >>
DescProfiles ==
    << <<"clear sky">>,
       <<"clear sky", "clear sky", "light rain", "light rain">>,
       <<"light rain", "clear sky", "clear sky", "light rain">>,
       <<"light rain", "Clear Sky", "clear sky">>,
       <<"light rain", "light rain", "clear sky">>,
       <<"clear sky", "light rain">> >>
Profiles == 1..Len(TempProfiles)

Cyc(profile, i) == profile[((i - 1) % Len(profile)) + 1]

\* One item of data['list'].
FeedItem(start, step, p, i) ==
    [ dt          |-> start + (i - 1) * step,
      temp        |-> Deg(Cyc(TempProfiles[p], i)),
      humidity    |-> 40 + 10 * (i % 3),
      speed       |-> Cyc(WindProfiles[p], i),
      description |-> Cyc(DescProfiles[p], i),
      icon        |-> "01d" ]

Feed(start, step, n, p) == [ i \in 1..n |-> FeedItem(start, step, p, i) ]

\* First timestamps (00:00, 15:00, 21:00 UTC) and spacings (3 h, 1 day).
StartTimes == {0, 54000, 75600}
Steps == {10800, 86400}
UtcOffsets == {0, 7200}

Feeds ==
    { Feed(s, d, n, p) : s \in StartTimes, d \in Steps,
                         n \in 0..MaxPoints, p \in Profiles }

SmallFeeds == { Feed(54000, 10800, n, 3) : n \in {0, 2} }

\* ------------------------------------------------------------------ state
VARIABLES
    now,               \* wall clock, seconds
    runs,              \* script runs started so far
    cache,             \* st.cache_data store of get_city_coordinates
    city, api_key, forecast_days, temperature_unit,   \* sidebar widgets
    show_temp_c,       \* "Temperature (C)" is among data_filter
    compare_clicked,   \* st.button("Compare Cities") of this run
    utcoffset,         \* local time zone of the server
    pc,                \* position of the running script
    coords,            \* (lat, lon, coord_error) of this run
    data,              \* forecast response body of this run
    errors,            \* st.error messages of this run (alerts apart)
    forecast_df,       \* rows of the forecast table
    alerts,            \* alerts built and shown by st.error
    current,           \* row shown as current weather
    daily_forecast,    \* rows of the daily aggregate table
    comparison,        \* what tab3 rendered in this run
    requests,          \* log of tab1's network requests
    fetch              \* upstream outcomes met by this run

vars == << now, runs, cache, city, api_key, forecast_days, temperature_unit,
           show_temp_c, compare_clicked, utcoffset, pc, coords, data, errors,
           forecast_df,       \* rows of the forecast table
    alerts,            \* alerts built and shown by st.error
    current,           \* row shown as current weather
    daily_forecast,    \* rows of the daily aggregate table
           comparison, requests, fetch >>

inputs == << city, api_key, forecast_days, temperature_unit, show_temp_c,
             compare_clicked >>
tab1out == << forecast_df, alerts, current, daily_forecast >>

Days == MinDays..MaxDays
Ended == {"done", "stopped", "crashed"}
NoFetch == [ geo |-> "none", forecast |-> "none", city1 |-> "none", city2 |-> "none" ]

\* ------------------------------------------------- get_city_coordinates
GeoOutcomes == {"found", "not_found", "http_error", "malformed", "conn_error"}

LatOf(c) == IF c = "Johannesburg" THEN -26 ELSE 30
LonOf(c) == IF c = "Johannesburg" THEN 28 ELSE -40

\* The body of get_city_coordinates for one upstream outcome: a 200 with a
\* non-empty list, a 200 with an empty list, a non-200, and an exception
\* (a missing 'lat' or a network failure), which the except clause catches.
get_city_coordinates(city_name, outcome) ==
    CASE outcome = "found" ->
           [ lat |-> LatOf(city_name), lon |-> LonOf(city_name), error |-> NoError ]
      [] outcome = "not_found" ->
           [ lat |-> None, lon |-> None, error |-> "City not found." ]
      [] outcome = "http_error" ->
           [ lat |-> None, lon |-> None, error |-> "API Error: status" ]
      [] OTHER ->
           [ lat |-> None, lon |-> None, error |-> "Connection error: exception" ]

\* st.cache_data(ttl=3600): an entry is served while it is younger than ttl.
CacheHit(entry, t) == entry # None /\ t - entry.stored_at < TTL

Request(svc) ==
    [ svc |-> svc, city |-> city, api_key |-> api_key, at |-> now, run |-> runs ]

\* ----------------------------------------------------------------- actions
\* Lines 92-97: the cached geocoding call and the coord_error check.
Tab1Geocode ==
    /\ pc = "geocode"
    /\ LET entry == cache[<<city, api_key>>]
           hit == CacheHit(entry, now)
       IN  \E outcome \in GeoOutcomes :
             LET result == IF hit THEN entry.value
                           ELSE get_city_coordinates(city, outcome)
             IN  /\ hit => outcome = "found"
                 /\ cache' = IF hit THEN cache
                             ELSE [ cache EXCEPT ![<<city, api_key>>] =
                                      [ value |-> result, stored_at |-> now ] ]
                 /\ requests' = IF hit THEN requests
                                ELSE Append(requests, Request("geo"))
                 /\ fetch' = [ fetch EXCEPT !.geo = IF hit THEN "cached" ELSE outcome ]
                 /\ coords' = result
                 /\ IF result.error # NoError
                    THEN /\ errors' = Append(errors, "Error: coord_error")
                         /\ pc' = "stopped"
                    ELSE /\ errors' = errors
                         /\ pc' = "forecast"
    /\ UNCHANGED << now, runs, inputs, utcoffset, data, tab1out, comparison >>

ForecastOutcomes == {"ok", "error_body", "not_json", "conn_error"}

\* The JSON body of the forecast response: the forecast, or the service's
\* error object (a non-200 answer).
ForecastBody(outcome, list) ==
    IF outcome = "ok"
    THEN [ cod |-> "200", list |-> list ]
    ELSE [ cod |-> "404", message |-> "city not found" ]

\* Lines 100-107: requests.get(weather_url), response.json() and the
\* 'list' check.  The call is made directly, outside any try block: a
\* network failure or a body that is not JSON raises out of the script.
ForecastFetch(lists) ==
    /\ pc = "forecast"
    /\ \E outcome \in ForecastOutcomes, list \in lists :
         /\ outcome # "ok" => list = <<>>
         /\ requests' = Append(requests, Request("forecast"))
         /\ fetch' = [ fetch EXCEPT !.forecast = outcome ]
         /\ IF outcome \in {"not_json", "conn_error"}
            THEN /\ data' = None
                 /\ errors' = errors
                 /\ pc' = "crashed"
            ELSE /\ data' = ForecastBody(outcome, list)
                 /\ IF "list" \notin DOMAIN data'
                    THEN /\ errors' = Append(errors, "Forecast API error: message")
                         /\ pc' = "stopped"
                    ELSE /\ errors' = errors
                         /\ pc' = "process"
    /\ UNCHANGED << now, runs, cache, inputs, utcoffset, coords, tab1out,
                    comparison >>

Tab1Forecast == ForecastFetch(SmallFeeds)

\* Lines 109-272: the forecast table, the alerts, the current weather, the
\* daily aggregates and the hourly table.  pd.DataFrame([]) has no columns,
\* so line 142 raises KeyError on an empty list; line 269 raises KeyError
\* when the Celsius column is selected for display under Fahrenheit.
Tab1Process ==
    /\ pc = "process"
    /\ LET df == ForecastData(data.list, forecast_days, temperature_unit,
                              utcoffset)
       IN  /\ forecast_df' = Frame(df)
           /\ IF Len(df) = 0
              THEN /\ pc' = "crashed"
                   /\ UNCHANGED << alerts, current, daily_forecast >>
              ELSE /\ alerts' = List(Alerts(df, temperature_unit))
                   /\ current' = df[1]
                   /\ daily_forecast' = Frame(DailyForecast(df))
                   /\ pc' = IF temperature_unit = Fahrenheit /\ show_temp_c
                            THEN "crashed" ELSE "tab2"
    /\ UNCHANGED << now, runs, cache, inputs, utcoffset, coords, data, errors,
                    comparison, requests, fetch >>

\* Lines 274-368: the historical tab; its unguarded requests may raise.
Tab2Historical ==
    /\ pc = "tab2"
    /\ \E raised \in BOOLEAN : pc' = IF raised THEN "crashed" ELSE "tab3"
    /\ UNCHANGED << now, runs, cache, inputs, utcoffset, coords, data, errors,
                    tab1out, comparison, requests, fetch >>

\* --------------------------------------------------------- get_city_data
\* What the three upstream services answer for one city: the geocoder
\* (found / empty list / non-200 / no 'lat' in the entry / network failure),
\* then the current-weather service (ok / non-200 / no 'main' in the body /
\* network failure), then the population service.
CityOutcomes ==
    { "ok", "ok_no_population",
      "geo_not_found", "geo_http_error", "geo_malformed", "geo_conn_error",
      "weather_http_error", "weather_malformed", "weather_conn_error" }

Raised == [kind |-> "raised"]

PopulationOf(c) == IF c = "Johannesburg" THEN 957441 ELSE 0

\* Lines 385-423.  The two status checks return None; nothing catches a
\* failing requests.get or a missing key outside the population lookup.
get_city_data(city_name, outcome) ==
    CASE outcome \in {"geo_not_found", "geo_http_error", "weather_http_error"} ->
           None
      [] outcome \in {"geo_malformed", "geo_conn_error",
                      "weather_malformed", "weather_conn_error"} ->
           Raised
      [] OTHER ->
           [ kind        |-> "dict",
             City        |-> Title(city_name),
             Latitude    |-> LatOf(city_name),
             Longitude   |-> LonOf(city_name),
             Population  |-> IF outcome = "ok"
                             THEN [ type |-> "int", value |-> PopulationOf(city_name) ]
                             ELSE [ type |-> "str", value |-> "Data not available" ],
             Temperature |-> 21,
             Humidity    |-> 40,
             Conditions  |-> "clear sky",
             Icon        |-> "01d" ]

\* isinstance(x, (int, float))
IsNumber(x) == x.type \in {"int", "float"}

ChartsAlways(data1, data2) == {"temperature", "population"}

\* Lines 490-528: the charts drawn under the comparison metrics.
Charts(data1, data2) ==
    IF IsNumber(data1.Population) /\ IsNumber(data2.Population)
    THEN {"temperature", "population"}
    ELSE {"temperature"}

\* Lines 428-528: the aggregate error, or the table, map and charts.
Compose(data1, data2) ==
    IF data1 = None \/ data2 = None
    THEN [ kind |-> "error",
           text |-> "Could not fetch data for one or both cities." ]
    ELSE [ kind    |-> "set",
           table   |-> <<data1, data2>>,
           center  |-> [ lat |-> (data1.Latitude + data2.Latitude) \div 2,
                         lon |-> (data1.Longitude + data2.Longitude) \div 2 ],
           charts  |-> Charts(data1, data2),
           warning |-> Charts(data1, data2) = {"temperature"} ]

\* Lines 370-528: the comparison tab, run when the button was clicked.
Tab3Compare ==
    /\ pc = "tab3"
    /\ IF ~compare_clicked
       THEN /\ pc' = "done"
            /\ UNCHANGED << comparison, fetch >>
       ELSE \E city1 \in Cities, city2 \in Cities,
               o1 \in CityOutcomes, o2 \in CityOutcomes :
              LET data1 == get_city_data(city1, o1)
                  data2 == get_city_data(city2, o2)
              IN  /\ fetch' = [ fetch EXCEPT !.city1 = o1, !.city2 = o2 ]
                  /\ IF data1 = Raised \/ data2 = Raised
                     THEN /\ pc' = "crashed"
                          /\ UNCHANGED comparison
                     ELSE /\ pc' = "done"
                          /\ comparison' = Compose(data1, data2)
    /\ UNCHANGED << now, runs, cache, inputs, utcoffset, coords, data, errors,
                    tab1out, requests >>

\* A widget event: one sidebar widget changes, or the button is clicked, or
\* the page is simply run again; the script then runs from the top.
Rerun ==
    /\ pc \in Ended
    /\ runs < MaxRuns
    /\ \E c \in Cities, k \in Keys, d \in Days, u \in Units,
          f \in BOOLEAN, b \in BOOLEAN :
         /\ Cardinality({ i \in 1..6 :
               << c # city, k # api_key, d # forecast_days,
                  u # temperature_unit, f # show_temp_c, b >>[i] }) <= 1
         /\ city' = c
         /\ api_key' = k
         /\ forecast_days' = d
         /\ temperature_unit' = u
         /\ show_temp_c' = f
         /\ compare_clicked' = b
    /\ runs' = runs + 1
    /\ pc' = "geocode"
    /\ coords' = None
    /\ data' = None
    /\ errors' = <<>>
    /\ forecast_df' = None
    /\ alerts' = None
    /\ current' = None
    /\ daily_forecast' = None
    /\ comparison' = None
    /\ fetch' = NoFetch
    /\ UNCHANGED << now, cache, utcoffset, requests >>

\* The wall clock advances.
Tick ==
    /\ now < MaxTicks * TickSeconds
    /\ now' = now + TickSeconds
    /\ UNCHANGED << runs, cache, inputs, utcoffset, pc, coords, data, errors,
                    tab1out, comparison, requests, fetch >>

\* The first run of the script, with the widgets at their defaults.
Init ==
    /\ now = 0
    /\ runs = 1
    /\ cache = [ a \in Cities \X Keys |-> None ]
    /\ city = DefaultCity
    /\ api_key = DefaultKey
    /\ forecast_days = DefaultDays
    /\ temperature_unit = Celsius
    /\ show_temp_c = TRUE
    /\ compare_clicked = FALSE
    /\ utcoffset \in UtcOffsets
    /\ pc = "geocode"
    /\ coords = None
    /\ data = None
    /\ errors = <<>>
    /\ forecast_df = None
    /\ alerts = None
    /\ current = None
    /\ daily_forecast = None
    /\ comparison = None
    /\ requests = <<>>
    /\ fetch = NoFetch

Next ==
    \/ Tab1Geocode
    \/ Tab1Forecast
    \/ Tab1Process
    \/ Tab2Historical
    \/ Tab3Compare
    \/ Rerun
    \/ Tick

Spec == Init /\ [][Next]_vars

\* ------------------------------------------- the forecast pipeline alone
\* The script right after line 107 of its first run, for every forecast
\* list, day count, unit, display filter and time zone of the bounds.
PipelineInit ==
    /\ now = 0
    /\ runs = 1
    /\ city = DefaultCity
    /\ api_key = DefaultKey
    /\ cache = [ a \in Cities \X Keys |->
                   IF a = <<DefaultCity, DefaultKey>>
                   THEN [ value |-> get_city_coordinates(DefaultCity, "found"),
                          stored_at |-> 0 ]
                   ELSE None ]
    /\ forecast_days \in Days
    /\ temperature_unit \in Units
    /\ show_temp_c \in BOOLEAN
    /\ compare_clicked = FALSE
    /\ utcoffset \in UtcOffsets
    /\ pc = "process"
    /\ coords = get_city_coordinates(DefaultCity, "found")
    /\ data \in { ForecastBody("ok", list) : list \in Feeds }
    /\ errors = <<>>
    /\ forecast_df = None
    /\ alerts = None
    /\ current = None
    /\ daily_forecast = None
    /\ comparison = None
    /\ requests = << [ svc |-> "geo", city |-> DefaultCity, api_key |-> DefaultKey,
                       at |-> 0, run |-> 1 ],
                     [ svc |-> "forecast", city |-> DefaultCity,
                       api_key |-> DefaultKey, at |-> 0, run |-> 1 ] >>
    /\ fetch = [ NoFetch EXCEPT !.geo = "found", !.forecast = "ok" ]

PipelineNext == Tab1Process

PipelineSpec == PipelineInit /\ [][PipelineNext]_vars

\* ------------------------------------------------------------ properties
Aggregated == daily_forecast.kind = "DataFrame"
Evaluated == alerts.kind = "list"

RECURSIVE SumOver(_, _)
SumOver(I, f) ==
    IF I = {} THEN 0
    ELSE LET i == CHOOSE x \in I : TRUE IN f[i] + SumOver(I \ {i}, f)

\* C4: for every day count D the daily aggregate table has at most D rows.
C4_AtMostDDays ==
    Aggregated => Len(daily_forecast.rows) <= forecast_days

\* C5: an upstream 'list' with zero points is processed without an
\* exception and gives an empty daily aggregate table and no alerts.
C5_EmptyListCompletes ==
    ("list" \in DOMAIN data /\ pc # "process" /\ Len(data.list) = 0)
        => /\ pc # "crashed"
           /\ daily_forecast = Frame(<<>>)
           /\ alerts = List(<<>>)

\* C6: the forecast table holds exactly the first min(n, D*8) points, in
\* their order; the daily aggregates have one row per date of those points
\* and each row's count, sums and extremes are those of exactly the points
\* of that date among them; 24 points, 8 per day over 3 whole days, give
\* exactly 2 rows under D = 2.
C6_Used == 1..Min2(Len(data.list), forecast_days * 8)
C6_DateAt(i) == DateOf(data.list[i].dt, utcoffset)
C6_OfDate(d) == { i \in C6_Used : C6_DateAt(i) = d }
C6_WholeDays ==
    /\ Len(data.list) = 24
    /\ \A k \in 0..2 :
         Cardinality({ i \in 1..24 : C6_DateAt(i) = C6_DateAt(1) + k }) = 8

C6_Truncation ==
    Aggregated =>
        /\ Len(forecast_df.rows) = Cardinality(C6_Used)
        /\ \A i \in C6_Used :
             /\ forecast_df.rows[i].Datetime = data.list[i].dt
             /\ forecast_df.rows[i].Wind = data.list[i].speed
             /\ forecast_df.rows[i].Humidity = data.list[i].humidity
        /\ { daily_forecast.rows[k].Date : k \in 1..Len(daily_forecast.rows) }
             = { C6_DateAt(i) : i \in C6_Used }
        /\ \A k \in 1..(Len(daily_forecast.rows) - 1) :
             daily_forecast.rows[k].Date < daily_forecast.rows[k + 1].Date
        /\ \A k \in 1..Len(daily_forecast.rows) :
             LET r == daily_forecast.rows[k]
                 I == C6_OfDate(r.Date)
                 T == [ i \in I |-> forecast_df.rows[i].Temperature ]
                 W == [ i \in I |-> data.list[i].speed ]
                 H == [ i \in I |-> data.list[i].humidity ]
             IN  /\ r.Temp_Avg = [ num |-> SumOver(I, T), den |-> Cardinality(I) ]
                 /\ r.Wind = [ num |-> SumOver(I, W), den |-> Cardinality(I) ]
                 /\ r.Humidity = [ num |-> SumOver(I, H), den |-> Cardinality(I) ]
                 /\ \A i \in I : r.Temp_Min <= T[i] /\ T[i] <= r.Temp_Max
                 /\ \E i \in I : r.Temp_Min = T[i]
                 /\ \E i \in I : r.Temp_Max = T[i]
        /\ (C6_WholeDays /\ forecast_days = 2) => Len(daily_forecast.rows) = 2

C6_Witness ==
    /\ Aggregated
    /\ C6_WholeDays
    /\ forecast_days = 2
    /\ Len(daily_forecast.rows) = 2
    /\ Len(forecast_df.rows) = 16

C8_Descs(d) ==
    Column(SelectSeq(forecast_df.rows, LAMBDA r : r.Date = d), "Description")
C8_First(xs, v) == CHOOSE i \in 1..Len(xs) : xs[i] = v /\ \A j \in 1..(i - 1) : xs[j] # v
C8_Times(xs, v) == Cardinality({ i \in 1..Len(xs) : xs[i] = v })

C8_ModalFirstSeen ==
    Aggregated =>
        \A k \in 1..Len(daily_forecast.rows) :
          LET r == daily_forecast.rows[k]
              xs == C8_Descs(r.Date)
          IN  /\ \E i \in 1..Len(xs) : xs[i] = r.Description
              /\ \A i \in 1..Len(xs) :
                   \/ xs[i] = r.Description
                   \/ C8_Times(xs, xs[i]) < C8_Times(xs, r.Description)
                   \/ /\ C8_Times(xs, xs[i]) = C8_Times(xs, r.Description)
                      /\ C8_First(xs, r.Description) < C8_First(xs, xs[i])

C8_Witness ==
    /\ Aggregated
    /\ \E k \in 1..Len(daily_forecast.rows) :
         /\ C8_Descs(daily_forecast.rows[k].Date)
              = <<"Light Rain", "Clear Sky", "Clear Sky", "Light Rain">>
         /\ daily_forecast.rows[k].Description = "Light Rain"

\* C9: the alerts hold exactly one wind alert when some row of the forecast
\* table has a wind speed above 10 m/s and none otherwise, whatever the unit.
C9_WindAlerts == { i \in 1..Len(alerts.items) : alerts.items[i].tag = "wind" }

C9_WindAlert ==
    Evaluated =>
        Cardinality(C9_WindAlerts) =
            IF \E i \in 1..Len(forecast_df.rows) : forecast_df.rows[i].Wind > 10
            THEN 1 ELSE 0

C9_Witness ==
    /\ Evaluated
    /\ Column(forecast_df.rows, "Wind") = <<3, 5, 12>>
    /\ Cardinality(C9_WindAlerts) = 1
    /\ temperature_unit = Fahrenheit

\* C10: the alerts hold exactly one heat alert when some row's temperature
\* is above 35 (Celsius) or 95 (Fahrenheit) and none otherwise; the alert
\* names that limit; a wind alert comes before the heat alert.
C10_HeatAlerts == { i \in 1..Len(alerts.items) : alerts.items[i].tag = "heat" }
C10_Limit == IF temperature_unit = Celsius THEN 35 ELSE 95

C10_HeatAlert ==
    Evaluated =>
        /\ Cardinality(C10_HeatAlerts) =
             IF \E i \in 1..Len(forecast_df.rows) :
                    forecast_df.rows[i].Temperature > C10_Limit * 5
             THEN 1 ELSE 0
        /\ \A i \in C10_HeatAlerts : alerts.items[i].degrees = C10_Limit
        /\ \A i \in C10_HeatAlerts, j \in C9_WindAlerts : j < i
        /\ Len(alerts.items) = Cardinality(C10_HeatAlerts \cup C9_WindAlerts)

C10_Witness ==
    /\ Evaluated
    /\ temperature_unit = Fahrenheit
    /\ \E i \in 1..Len(forecast_df.rows) : forecast_df.rows[i].Temperature = 484
    /\ Len(alerts.items) = 2
    /\ alerts.items[1].tag = "wind"
    /\ alerts.items[2].tag = "heat"
    /\ alerts.items[2].degrees = 95

\* C1: whenever a comparison was asked for and at least one city's fetch
\* failed (geocoding miss, non-200, malformed payload), the run ends in the
\* aggregate "could not fetch" error; a comparison set needs both fetches.
C1_Failed(o) == o \notin {"ok", "ok_no_population"}

C1_AllOrNothing ==
    (pc \in Ended /\ fetch.city1 # "none") =>
        /\ (C1_Failed(fetch.city1) \/ C1_Failed(fetch.city2))
             => comparison.kind = "error"
        /\ comparison.kind = "set"
             => (~C1_Failed(fetch.city1) /\ ~C1_Failed(fetch.city2))

\* C2: when the geocoding call or the forecast call of a run failed (not
\* found, non-200, connection error), the run is halted with an error
\* message and shows no forecast table, alerts, aggregates or current row.
C2_GeoFailed == coords # None /\ coords.error # NoError
C2_ForecastFailed == fetch.forecast \in {"error_body", "not_json", "conn_error"}

C2_FetchFailureHalts ==
    (C2_GeoFailed \/ C2_ForecastFailed) =>
        /\ pc = "stopped"
        /\ Len(errors) > 0
        /\ forecast_df = None
        /\ alerts = None
        /\ daily_forecast = None
        /\ current = None

\* C3: no two network requests of tab1 to the same service with the same
\* city and API key are less than one hour apart, so two runs of the
\* forecast tab within the hour issue at most one geocoding request and at
\* most one forecast request between them.
C3_Memoized ==
    \A i \in 1..Len(requests), j \in 1..Len(requests) :
        ( /\ i < j
          /\ requests[i].svc = requests[j].svc
          /\ requests[i].city = requests[j].city
          /\ requests[i].api_key = requests[j].api_key )
            => requests[j].at - requests[i].at >= 3600

\* C11 (as claimed): every row of the forecast table has the temperature
\* C*9/5+32 of its point under Fahrenheit and exactly C under Celsius, and
\* the point's humidity, wind speed, description and icon unchanged.
C11_Built == forecast_df.kind = "DataFrame"

C11_Numbers(i) ==
    LET row == forecast_df.rows[i]
        item == data.list[i]
    IN  /\ temperature_unit = Fahrenheit
            => 5 * row.Temperature = 9 * item.temp + 5 * (32 * 5)
        /\ temperature_unit = Celsius => row.Temperature = item.temp
        /\ row.Humidity = item.humidity
        /\ row.Wind = item.speed
        /\ row.Icon = item.icon

C11_Unchanged ==
    C11_Built =>
        \A i \in 1..Len(forecast_df.rows) :
          /\ C11_Numbers(i)
          /\ forecast_df.rows[i].Description = data.list[i].description

\* C11 (amended): every row of the forecast table has the temperature
\* C*9/5+32 of its point under Fahrenheit and exactly C under Celsius, the
\* point's humidity, wind speed and icon unchanged, and the point's
\* description with the first letter of each word in upper case.
C11_TitleCased(raw, shown) ==
    \/ raw \in {"clear sky", "Clear Sky"} /\ shown = "Clear Sky"
    \/ raw = "light rain" /\ shown = "Light Rain"

C11_Normalization ==
    C11_Built =>
        \A i \in 1..Len(forecast_df.rows) :
          /\ C11_Numbers(i)
          /\ C11_TitleCased(data.list[i].description,
                            forecast_df.rows[i].Description)

C11_Witness ==
    /\ C11_Built
    /\ temperature_unit = Fahrenheit
    /\ \E i \in 1..Len(forecast_df.rows) :
         /\ data.list[i].temp = 36 * 5
         /\ forecast_df.rows[i].Temperature = 484
         /\ data.list[i].description = "clear sky"
         /\ forecast_df.rows[i].Description = "Clear Sky"
    /\ \E i \in 1..Len(forecast_df.rows) : data.list[i].temp = 20 * 5

\* C12: when both cities' records are fetched, a failed population lookup
\* leaves the 'Data not available' string in the record (not a number, so
\* not 0) and the comparison is still composed; the population chart is
\* drawn exactly when both records hold a numeric population, and otherwise
\* the temperature chart alone is drawn with a warning.
C12_Fetched(o) == o \in {"ok", "ok_no_population"}
C12_Outcome(i) == IF i = 1 THEN fetch.city1 ELSE fetch.city2
C12_Numeric(i) == comparison.table[i].Population.type = "int"

C12_PopulationGate ==
    (pc = "done" /\ C12_Fetched(fetch.city1) /\ C12_Fetched(fetch.city2)) =>
        /\ comparison.kind = "set"
        /\ \A i \in 1..2 :
             /\ C12_Outcome(i) = "ok_no_population" =>
                  comparison.table[i].Population
                      = [ type |-> "str", value |-> "Data not available" ]
             /\ C12_Outcome(i) = "ok" <=> C12_Numeric(i)
        /\ "temperature" \in comparison.charts
        /\ "population" \in comparison.charts
             <=> (C12_Numeric(1) /\ C12_Numeric(2))
        /\ comparison.warning <=> "population" \notin comparison.charts

C12_Witness ==
    /\ pc = "done"
    /\ fetch.city1 = "ok_no_population"
    /\ fetch.city2 = "ok"
    /\ comparison.kind = "set"
    /\ comparison.table[1].Population.type = "str"
    /\ comparison.table[2].Population = [ type |-> "int", value |-> 0 ]
    /\ comparison.charts = {"temperature"}
    /\ comparison.warning

====
